---- MODULE Spec2Model ----
(***************************************************************************)
(* Model of move_files.py: a script that lists a directory, creates the    *)
(* destination folder and moves every listed file from the source folder   *)
(* to the destination folder with shutil.move, one file after the other.   *)
(*                                                                         *)
(* The file system is a map from paths (folder, name) to the file found    *)
(* there.  A file is identified by the folder it was in before the first   *)
(* run: "S" for a file of the source folder, "D" for a file of the         *)
(* destination folder, "absent" for no entry.  Entries are regular files;  *)
(* nothing but the program changes the two folders.                        *)
(*                                                                         *)
(* Two entry points are modelled: entry = "script" is the __main__ block   *)
(* (listdir, makedirs, move_files); entry = "call" is a direct call of     *)
(* move_files with an arbitrary list, in which names may repeat.           *)
(***************************************************************************)
EXTENDS Integers, Sequences, FiniteSets, TLC

\* bounds of the model
MaxLen == 3
MaxRuns == 2

Names == {"a.txt", "b.txt", "c.txt"}

source_folder == "source"
destination_folder == "dest"
Folders == {source_folder, destination_folder}
Paths == Folders \X Names

Errors == {"NotFound", "PermissionDenied", "FileExists"}

VARIABLES
  entry,         \* "script" or "call"
  pc,            \* "listdir", "makedirs", "loop", "done"
  enumDir,       \* names found in the directory the script lists
  file_list,     \* the list move_files iterates over
  fs,            \* [Paths -> {"absent", "S", "D"}]
  destExists,    \* the destination folder exists
  destWritable,  \* entries can be created in the destination folder
  i,             \* position of the loop in file_list
  outcome,       \* "none" while running, "success", or the error raised
  log,           \* history: one record per shutil.move call of this run
  run,           \* number of the current run
  prevOutcome,   \* outcome of the previous run ("none" in the first run)
  fs0,           \* history: fs when the current run started
  destExists0    \* history: destExists when the current run started

vars == <<entry, pc, enumDir, file_list, fs, destExists, destWritable, i,
          outcome, log, run, prevOutcome, fs0, destExists0>>

SeqsUpTo(S, n) == UNION {[1..k -> S] : k \in 0..n}

Range(s) == {s[k] : k \in 1..Len(s)}

\* os.listdir: every entry once, in arbitrary order
os_listdir(dir) ==
  {s \in [1..Cardinality(dir) -> dir] : Range(s) = dir}

\* os.path.join(folder, name) for a bare file name
os_path_join(folder, name) == <<folder, name>>

\* os.makedirs(path, exist_ok): the error raised, or "ok"
os_makedirs_result(exists, exist_ok) ==
  IF exists /\ ~exist_ok THEN "FileExists" ELSE "ok"

\* the element the for loop yields at its k-th iteration
NextFile_reversed(list, k) == list[Len(list) + 1 - k]

NextFile(list, k) == list[k]

\* shutil.move(src, dst) of a regular file: the error raised, or "ok"
shutil_move_result_force(f, src, dst, dExists, dWritable) ==
  IF f[src] = "absent" THEN "ok"
  ELSE IF ~dExists THEN "NotFound"
  ELSE IF ~dWritable THEN "PermissionDenied"
  ELSE "ok"

shutil_move_result(f, src, dst, dExists, dWritable) ==
  IF f[src] = "absent" THEN "NotFound"
  ELSE IF ~dExists THEN "NotFound"
  ELSE IF ~dWritable THEN "PermissionDenied"
  ELSE "ok"

\* shutil.move(src, dst) of a regular file: the file system after a move
\* that raised nothing (an existing file at dst is replaced)
shutil_move_copy(f, src, dst) == [f EXCEPT ![dst] = f[src]]

shutil_move_drop(f, src, dst) == [f EXCEPT ![src] = "absent"]

shutil_move(f, src, dst) == [f EXCEPT ![dst] = f[src], ![src] = "absent"]

\* an exception nobody catches ends the run
Raise_swallow(err) ==
  /\ pc' = pc
  /\ outcome' = outcome
  /\ i' = i + 1

Raise_silent(err) ==
  /\ pc' = "done"
  /\ outcome' = "success"
  /\ i' = i

Raise(err) ==
  /\ pc' = "done"
  /\ outcome' = err
  /\ i' = i

InitFs ==
  {f \in [Paths -> {"absent", "S", "D"}] :
     /\ \A n \in Names : f[<<source_folder, n>>] \in {"absent", "S"}
     /\ \A n \in Names : f[<<destination_folder, n>>] \in {"absent", "D"}}

Init ==
  /\ entry \in {"script", "call"}
  /\ enumDir \in SUBSET Names
  /\ IF entry = "script"
       THEN pc = "listdir" /\ file_list = <<>>
       ELSE pc = "loop" /\ file_list \in SeqsUpTo(Names, MaxLen) /\ enumDir = {}
  /\ fs \in InitFs
  /\ destExists \in BOOLEAN
  /\ destWritable \in BOOLEAN
  /\ ~destExists => /\ destWritable
                    /\ \A n \in Names : fs[<<destination_folder, n>>] = "absent"
  /\ i = 1
  /\ outcome = "none"
  /\ log = <<>>
  /\ run = 1
  /\ prevOutcome = "none"
  /\ fs0 = fs
  /\ destExists0 = destExists

\* file_list = os.listdir(...)
listdir ==
  /\ pc = "listdir"
  /\ file_list' \in os_listdir(enumDir)
  /\ pc' = "makedirs"
  /\ UNCHANGED <<entry, enumDir, fs, destExists, destWritable, i, outcome,
                 log, run, prevOutcome, fs0, destExists0>>

\* os.makedirs(destination_folder, exist_ok=True)
makedirs_skip ==
  /\ pc = "makedirs"
  /\ pc' = "loop"
  /\ UNCHANGED <<entry, enumDir, file_list, fs, destExists, destWritable, i,
                 outcome, log, run, prevOutcome, fs0, destExists0>>

makedirs_strict ==
  /\ pc = "makedirs"
  /\ LET r == os_makedirs_result(destExists, FALSE)
     IN  IF r = "ok"
           THEN /\ destExists' = TRUE
                /\ pc' = "loop"
                /\ UNCHANGED <<outcome, i>>
           ELSE /\ Raise(r)
                /\ UNCHANGED destExists
  /\ UNCHANGED <<entry, enumDir, file_list, fs, destWritable, log, run,
                 prevOutcome, fs0, destExists0>>

makedirs ==
  /\ pc = "makedirs"
  /\ LET r == os_makedirs_result(destExists, TRUE)
     IN  IF r = "ok"
           THEN /\ destExists' = TRUE
                /\ pc' = "loop"
                /\ UNCHANGED <<outcome, i>>
           ELSE /\ Raise(r)
                /\ UNCHANGED destExists
  /\ UNCHANGED <<entry, enumDir, file_list, fs, destWritable, log, run,
                 prevOutcome, fs0, destExists0>>

\* one iteration of the for loop of move_files
move_files ==
  /\ pc = "loop"
  /\ i <= Len(file_list)
  /\ LET file_name == NextFile(file_list, i)
         source_path == os_path_join(source_folder, file_name)
         destination_path == os_path_join(destination_folder, file_name)
         r == shutil_move_result(fs, source_path, destination_path,
                                 destExists, destWritable)
     IN  /\ log' = Append(log, [name |-> file_name, result |-> r])
         /\ IF r = "ok"
              THEN /\ fs' = shutil_move(fs, source_path, destination_path)
                   /\ i' = i + 1
                   /\ UNCHANGED <<pc, outcome>>
              ELSE /\ Raise(r)
                   /\ UNCHANGED fs
  /\ UNCHANGED <<entry, enumDir, file_list, destExists, destWritable, run,
                 prevOutcome, fs0, destExists0>>

\* the for loop is exhausted: move_files returns and the run ends normally
move_files_return ==
  /\ pc = "loop"
  /\ i > Len(file_list)
  /\ pc' = "done"
  /\ outcome' = "success"
  /\ UNCHANGED <<entry, enumDir, file_list, fs, destExists, destWritable, i,
                 log, run, prevOutcome, fs0, destExists0>>

\* the operator starts the program (or the caller calls move_files) again
\* with the same inputs
Rerun ==
  /\ pc = "done"
  /\ run < MaxRuns
  /\ run' = run + 1
  /\ prevOutcome' = outcome
  /\ outcome' = "none"
  /\ i' = 1
  /\ log' = <<>>
  /\ fs0' = fs
  /\ destExists0' = destExists
  /\ IF entry = "script"
       THEN pc' = "listdir" /\ file_list' = <<>>
       ELSE pc' = "loop" /\ UNCHANGED file_list
  /\ UNCHANGED <<entry, enumDir, fs, destExists, destWritable>>

ProgramStep == listdir \/ makedirs \/ move_files \/ move_files_return

Next == listdir \/ makedirs \/ move_files \/ move_files_return \/ Rerun

Spec == Init /\ [][Next]_vars

\* a started run is a single synchronous thread: it keeps taking steps
FairSpec == Spec /\ WF_vars(ProgramStep)

TypeOK ==
  /\ entry \in {"script", "call"}
  /\ pc \in {"listdir", "makedirs", "loop", "done"}
  /\ enumDir \in SUBSET Names
  /\ file_list \in Seq(Names)
  /\ fs \in [Paths -> {"absent", "S", "D"}]
  /\ destExists \in BOOLEAN
  /\ destWritable \in BOOLEAN
  /\ i \in 1..(Len(file_list) + 1)
  /\ outcome \in {"none", "success"} \cup Errors
  /\ run \in 1..MaxRuns

(***************************************************************************)
(* Vocabulary of the properties                                            *)
(***************************************************************************)
Src(n) == <<source_folder, n>>
Dst(n) == <<destination_folder, n>>

Terminated == pc = "done"
Failed == pc = "done" /\ outcome \in Errors

\* names the run is asked to move
Listed == IF entry = "script" THEN enumDir ELSE Range(file_list)

\* every listed file was in the source folder when the run started
AllListedPresent0 == \A n \in Range(file_list) : fs0[Src(n)] = "S"

\* the destination folder can take files during the loop
DestReady == destWritable /\ (entry = "script" \/ destExists0)

NoDuplicates(list) ==
  \A j, k \in 1..Len(list) : j # k => list[j] # list[k]

IsRepeat(list, k) == \E j \in 1..(k - 1) : list[j] = list[k]

\* position of the first entry that repeats an earlier one
FirstRepeat(list) ==
  CHOOSE k \in 1..Len(list) :
    /\ IsRepeat(list, k)
    /\ \A m \in 1..(k - 1) : ~IsRepeat(list, m)

AllMovesOk ==
  /\ Len(log) = Len(file_list)
  /\ \A k \in 1..Len(log) : log[k].result = "ok"

\* C1: when every listed file is in the source folder at the start and the
\* destination is writable, a run that completes leaves every listed file
\* in the destination folder and none of them in the source folder; with
\* such inputs and no repeated name the run does complete normally.
C1_Relocated ==
  /\ (pc = "done" /\ outcome = "success" /\ AllListedPresent0 /\ DestReady)
       => \A n \in Range(file_list) :
            fs[Dst(n)] = "S" /\ fs[Src(n)] = "absent"
  /\ (pc = "done" /\ AllListedPresent0 /\ DestReady /\ NoDuplicates(file_list))
       => outcome = "success"

C1_Witness ==
  /\ pc = "done" /\ outcome = "success" /\ run = 1
  /\ AllListedPresent0 /\ DestReady
  /\ Len(file_list) >= 2
  /\ \A n \in Range(file_list) : fs[Dst(n)] = "S" /\ fs[Src(n)] = "absent"

\* C2: a listed file that is missing from the source folder when its turn
\* comes makes that step end the run with NotFound, changing no file; and
\* a run ended by NotFound attempted nothing after the failing entry: each
\* later file still in the source folder is not in the destination folder,
\* and the entries of later names the run had not moved before are as they
\* were when the run started.
C2_MissingStep ==
  (pc = "loop" /\ i <= Len(file_list) /\ fs[Src(file_list[i])] = "absent")
    => /\ pc' = "done"
       /\ outcome' = "NotFound"
       /\ fs' = fs
       /\ Len(log') = i
       /\ log'[i] = [name |-> file_list[i], result |-> "NotFound"]

C2_LaterUntouched ==
  (pc = "done" /\ outcome = "NotFound")
    => /\ Len(log) \in 1..Len(file_list)
       /\ log[Len(log)].result = "NotFound"
       /\ \A k \in (Len(log) + 1)..Len(file_list) :
            LET n == file_list[k]
            IN  /\ fs[Src(n)] = "S" => fs[Dst(n)] # "S"
                /\ (\A j \in 1..(Len(log) - 1) : file_list[j] # n)
                     => fs[Src(n)] = fs0[Src(n)] /\ fs[Dst(n)] = fs0[Dst(n)]

C2_AbortAtMissing == [][C2_MissingStep]_vars /\ []C2_LaterUntouched

C2_Witness ==
  /\ pc = "done" /\ outcome = "NotFound"
  /\ Len(log) = 2 /\ Len(file_list) = 3
  /\ destExists
  /\ fs[Src(file_list[2])] = "absent"
  /\ file_list[3] \notin {file_list[1], file_list[2]}
  /\ fs[Src(file_list[3])] = "S"
  /\ fs[Dst(file_list[3])] = "D"

C4_MakedirsNoop ==
  (pc = "makedirs" /\ destExists)
    => pc' = "loop" /\ outcome' = "none" /\ destExists' /\ fs' = fs

C4_DestBeforeMoves ==
  /\ [][fs' # fs => destExists]_vars
  /\ []((entry = "script" /\ pc = "loop") => destExists)
  /\ [][C4_MakedirsNoop]_vars

C4_Witness ==
  /\ entry = "script" /\ destExists0 /\ pc = "loop" /\ i = 1
  /\ outcome = "none"
  /\ fs = fs0
  /\ \E n \in Names : fs[Dst(n)] = "D"

\* C5: the k-th shutil.move call of a run is for the k-th entry of the list
\* and is made only after all calls before it succeeded; a step changes
\* only the entries of the name at the loop position and then advances the
\* position by one.
C5_LogInOrder ==
  /\ Len(log) <= Len(file_list)
  /\ pc = "loop" => i = Len(log) + 1
  /\ \A k \in 1..Len(log) :
       /\ log[k].name = file_list[k]
       /\ k < Len(log) => log[k].result = "ok"

C5_OneAtATime ==
  fs' # fs
    => /\ pc = "loop" /\ i <= Len(file_list)
       /\ i' = i + 1
       /\ \A p \in Paths : p[2] # file_list[i] => fs'[p] = fs[p]

C5_InListOrder == []C5_LogInOrder /\ [][C5_OneAtATime]_vars

C5_Witness ==
  /\ pc = "done" /\ outcome = "success"
  /\ Len(log) = 3
  /\ NoDuplicates(file_list)
  /\ \A k \in 1..3 : log[k] = [name |-> file_list[k], result |-> "ok"]

\* C6 as stated: a run that follows a successful run with the same inputs
\* fails with NotFound.
C6_Original ==
  (run >= 2 /\ prevOutcome = "success" /\ pc = "done")
    => outcome = "NotFound"

\* C6 amended: a run with a non-empty list that follows a successful run
\* with the same inputs fails with NotFound at the first entry and moves
\* nothing.
C6_SecondRunFails ==
  (run >= 2 /\ prevOutcome = "success" /\ pc = "done" /\ file_list # <<>>)
    => /\ outcome = "NotFound"
       /\ Len(log) = 1
       /\ fs = fs0

C6_Witness ==
  /\ run = 2 /\ prevOutcome = "success" /\ pc = "done"
  /\ Len(file_list) >= 2
  /\ outcome = "NotFound"
  /\ \A n \in Range(file_list) : fs[Dst(n)] = "S"

\* C7: a run that ends with an error at position f has every entry before
\* f moved: the file is in the destination folder and not in the source
\* folder when the run ends, and the outcome is the error of entry f.
C7_PartialEffect ==
  Failed
    => /\ Len(log) >= 1
       /\ log[Len(log)].result = outcome
       /\ \A k \in 1..(Len(log) - 1) :
            /\ log[k].result = "ok"
            /\ fs[Dst(file_list[k])] = "S"
            /\ fs[Src(file_list[k])] = "absent"

C7_Witness ==
  /\ Failed /\ Len(log) = 3
  /\ file_list[1] # file_list[2]
  /\ \A k \in 1..2 : fs[Dst(file_list[k])] = "S"
                     /\ fs[Src(file_list[k])] = "absent"

\* C8: a list with a repeated name, all of whose files are in the source
\* folder at the start and whose destination is writable, is accepted: the
\* entries before the first repeat are moved and the run ends with NotFound
\* at the first repeat.
C8_DuplicateFails ==
  (pc = "done" /\ AllListedPresent0 /\ DestReady /\ ~NoDuplicates(file_list))
    => LET k == FirstRepeat(file_list)
       IN  /\ outcome = "NotFound"
           /\ Len(log) = k
           /\ log[k] = [name |-> file_list[k], result |-> "NotFound"]
           /\ \A j \in 1..(k - 1) : log[j].result = "ok"
           /\ fs[Dst(file_list[k])] = "S"

C8_Witness ==
  /\ pc = "done" /\ run = 1 /\ outcome = "NotFound"
  /\ AllListedPresent0 /\ DestReady
  /\ Len(file_list) = 3
  /\ file_list[1] = file_list[2]
  /\ Len(log) = 2
  /\ log[1].result = "ok"
  /\ fs[Src(file_list[3])] = "S"

\* C9: every started run reaches its end; a run that has not ended has no
\* outcome, a run that has ended has exactly one of success and an error,
\* it is success exactly when every entry of the list was moved, and an
\* error is the error of the last move attempted.
C9_Outcome ==
  /\ pc # "done" => outcome = "none"
  /\ pc = "done" => outcome \in {"success"} \cup Errors
  /\ pc = "done" => (outcome = "success" <=> AllMovesOk)
  /\ Failed => Len(log) >= 1 /\ log[Len(log)].result = outcome

C9_Terminates == ((pc # "done") ~> (pc = "done")) /\ []C9_Outcome

C9_Witness ==
  /\ Failed /\ Len(log) = 2 /\ Len(file_list) = 3
  /\ log[1].result = "ok"
  /\ log[2].result = outcome

\* C10: in a run that started with no listed name in the destination
\* folder, every file that started in the source folder is in exactly one
\* of the two folders, source files that are not listed stay where they
\* are, and every file that started in the destination folder stays there.
NoCollision0 == \A n \in Listed : fs0[Dst(n)] = "absent"

C10_Conservation ==
  NoCollision0
    => /\ \A n \in Names :
            fs0[Src(n)] = "S"
              => (fs[Src(n)] = "S") # (fs[Dst(n)] = "S")
       /\ \A n \in Names \ Listed :
            fs[Src(n)] = fs0[Src(n)]
       /\ \A n \in Names :
            fs0[Dst(n)] # "absent" => fs[Dst(n)] = fs0[Dst(n)]

C10_Witness ==
  /\ NoCollision0 /\ pc = "done" /\ outcome = "success"
  /\ Len(log) >= 1
  /\ \E n \in Names \ Listed : fs[Src(n)] = "S"
  /\ \E n \in Names : fs[Dst(n)] = "D"
  /\ \E n \in Listed : fs[Dst(n)] = "S"
====
